---- MODULE Spec2Model ----
(***************************************************************************)
(* A model of the code fragments of src/src/main.rs (notes on Rust's       *)
(* Result-based error handling): print_error, the ? operator, unwrap_or /  *)
(* unwrap_or_else, move_all, read_numbers, the compile retry loop and      *)
(* digits.parse::<u64>().unwrap().  Each fragment is a small sequential    *)
(* program; the environment (stderr, the file system, the compiler) is     *)
(* nondeterministic.  Each fragment has its own specification.             *)
(***************************************************************************)
EXTENDS Integers, Sequences, FiniteSets

VARIABLES
  pePc, peInput, peErr, peWrites,
  qmRetType, qmResult, qmPc, qmWeather, qmRet, qmStmts, mtPc, mtWeather, mtRet, mtStmts,
  uwMethod, uwResult, uwHometown, uwPc, uwReport, uwFnCalls,
  mvOpen, mvDir, mvPc, mvPos, mvSrc, mvDst, mvRet,
  rnFile, rnPc, rnPos, rnLine, rnNumbers, rnRet,
  rlPc, rlCompile, rlLog, rlRet,
  pdDigits, pdPc, pdNum

peVars == <<pePc, peInput, peErr, peWrites>>
qmVars == <<qmRetType, qmResult, qmPc, qmWeather, qmRet, qmStmts,
            mtPc, mtWeather, mtRet, mtStmts>>
uwVars == <<uwMethod, uwResult, uwHometown, uwPc, uwReport, uwFnCalls>>
mvVars == <<mvOpen, mvDir, mvPc, mvPos, mvSrc, mvDst, mvRet>>
rnVars == <<rnFile, rnPc, rnPos, rnLine, rnNumbers, rnRet>>
rlVars == <<rlPc, rlCompile, rlLog, rlRet>>
pdVars == <<pdDigits, pdPc, pdNum>>
vars == <<peVars, qmVars, uwVars, mvVars, rnVars, rlVars, pdVars>>

\* What each fragment leaves alone: the state of the other fragments.
NotPe == <<qmVars, uwVars, mvVars, rnVars, rlVars, pdVars>>
NotQm == <<peVars, uwVars, mvVars, rnVars, rlVars, pdVars>>
NotUw == <<peVars, qmVars, mvVars, rnVars, rlVars, pdVars>>
NotMv == <<peVars, qmVars, uwVars, rnVars, rlVars, pdVars>>
NotRn == <<peVars, qmVars, uwVars, mvVars, rlVars, pdVars>>
NotRl == <<peVars, qmVars, uwVars, mvVars, rnVars, pdVars>>
NotPd == <<peVars, qmVars, uwVars, mvVars, rnVars, rlVars>>

(***************************************************************************)
(* Option<T> and Result<T, E>.                                             *)
(***************************************************************************)
None == <<>>
Some(x) == <<x>>

Ok(v) == [tag |-> "Ok", val |-> v]
Err(e) == [tag |-> "Err", val |-> e]
Unit == "()"
Unset == [tag |-> "unset", val |-> Unit]

(***************************************************************************)
(* Bounds.                                                                 *)
(***************************************************************************)
MaxChain == 3

(***************************************************************************)
(* The std::error::Error interface: an error has a message and may have a  *)
(* cause, which is an error again; the root cause has none.                *)
(***************************************************************************)
Msgs == {"boat was repossessed", "failed to transfer $300", "network outage"}

RECURSIVE ErrorsOfDepth(_)
ErrorsOfDepth(n) ==
  IF n = 1
    THEN [msg : Msgs, cause : {None}]
    ELSE [msg : Msgs, cause : {Some(e) : e \in ErrorsOfDepth(n - 1)}]

ChainErrors == UNION {ErrorsOfDepth(n) : n \in 1..MaxChain}

\* {} in a format string: the brief message of the error
Display(err) == err.msg
Cause(err) == err.cause

(***************************************************************************)
(* print_error.  peWrites is the sequence of writeln! calls made on        *)
(* stderr, each with the line handed to it and whether the write           *)
(* succeeded (the environment decides).                                    *)
(***************************************************************************)
ErrorLine(err) == [prefix |-> "error: ", text |-> Display(err)]
CausedByLine(cause) == [prefix |-> "caused by: ", text |-> Display(cause)]

Writeln(line, ok) == Append(peWrites, [line |-> line, ok |-> ok])

\* let _ = <io::Result>: the result is dropped and execution goes on.
PropagateWriteResult(ok, next) == IF ok THEN next ELSE "done"
IgnoreResult(ok, next) == next

\* while let Some(cause) = err.cause()
HasCauseFirstOnly(err) == Cause(err) # None /\ err = peInput
HasCause(err) == Cause(err) # None

WriteErrWhereCauseGoes(err, cause) == CausedByLine(err)
LoopLine(err, cause) == CausedByLine(cause)

PeInit ==
  /\ peInput \in ChainErrors
  /\ peErr = peInput
  /\ pePc = "first"
  /\ peWrites = <<>>

PrintErrorFirst ==
  /\ pePc = "first"
  /\ \E ok \in BOOLEAN :
       /\ peWrites' = Writeln(ErrorLine(peErr), ok)
       /\ pePc' = IgnoreResult(ok, "while")
  /\ UNCHANGED <<peInput, peErr>>
  /\ UNCHANGED NotPe

PrintErrorLoop ==
  /\ pePc = "while"
  /\ HasCause(peErr)
  /\ LET cause == Cause(peErr)[1] IN
       \E ok \in BOOLEAN :
         /\ peWrites' = Writeln(LoopLine(peErr, cause), ok)
         /\ peErr' = cause
         /\ pePc' = IgnoreResult(ok, "while")
  /\ UNCHANGED peInput
  /\ UNCHANGED NotPe

PrintErrorReturn ==
  /\ pePc = "while"
  /\ ~HasCause(peErr)
  /\ pePc' = "done"
  /\ UNCHANGED <<peInput, peErr, peWrites>>
  /\ UNCHANGED NotPe

PeNext == PrintErrorFirst \/ PrintErrorLoop \/ PrintErrorReturn

PeIdle ==
  /\ pePc = "idle"
  /\ peInput = None
  /\ peErr = None
  /\ peWrites = <<>>

\* The chain of an error, read off its structure: the messages from the
\* top-level error to the root cause, and the root cause itself.
RECURSIVE ChainMsgs(_)
ChainMsgs(e) ==
  <<e.msg>> \o (IF e.cause = <<>> THEN <<>> ELSE ChainMsgs(e.cause[1]))

RECURSIVE RootCause(_)
RootCause(e) == IF e.cause = <<>> THEN e ELSE RootCause(e.cause[1])

ExpectedLine(msgs, i) ==
  [prefix |-> IF i = 1 THEN "error: " ELSE "caused by: ", text |-> msgs[i]]

\* C1: for a chain with k causes print_error attempts exactly k+1 writes, in
\* order from the top-level error to the root cause: first "error: <top>",
\* then "caused by: <i-th cause>"; no link is skipped or repeated.
PrintErrorReportsEachLink ==
  LET msgs == ChainMsgs(peInput) IN
    pePc # "idle" =>
      /\ Len(peWrites) <= Len(msgs)
      /\ \A i \in 1..Len(peWrites) : peWrites[i].line = ExpectedLine(msgs, i)
      /\ pePc = "done" => Len(peWrites) = Len(msgs)

PrintErrorReportsEachLinkWitness ==
  /\ pePc = "done"
  /\ Len(peWrites) >= 3
  /\ peWrites[3].line.prefix = "caused by: "

\* C2: a failed write to stderr is ignored: after a failed write for a link
\* that is not the root cause the next link is still written (or is about to
\* be), and print_error returns only after a write was attempted for every
\* link, whichever writes failed.
PrintErrorIgnoresWriteFailures ==
  LET n == Len(ChainMsgs(peInput)) IN
    pePc # "idle" =>
      /\ \A i \in 1..Len(peWrites) :
           (~peWrites[i].ok /\ i < n) => (Len(peWrites) > i \/ pePc = "while")
      /\ pePc = "done" => Len(peWrites) = n

PrintErrorIgnoresWriteFailuresWitness ==
  /\ pePc = "done"
  /\ \E i \in 1..Len(peWrites) : ~peWrites[i].ok /\ i < Len(peWrites)

\* C3: print_error terminates on every finite chain, having advanced err to
\* the root cause of its argument.
PrintErrorTerminates ==
  <>(pePc = "done" /\ peErr = RootCause(peInput))

PrintErrorTerminatesWitness ==
  /\ pePc = "done"
  /\ peErr # peInput
  /\ peErr.cause = <<>>

(***************************************************************************)
(* Error values of the standard library, and GenError = Box<Error>, "any   *)
(* error".  GenError::from(e) boxes e; From<T> for T is the identity.      *)
(***************************************************************************)
IoError(m) == [type |-> "io::Error", msg |-> m, boxed |-> None]
ParseIntError(m) == [type |-> "ParseIntError", msg |-> m, boxed |-> None]
GenErrorFrom(e) == [type |-> "GenError", msg |-> e.msg, boxed |-> Some(e)]

IoErrors == {IoError("timed out"), IoError("failed to lookup address information")}
ParseErrors == {ParseIntError("invalid digit")}

\* Whether the function's error type can be made from an error of type t.
HasFrom(t, retType) == t = retType \/ retType = "GenError"
From(e, retType) == IF e.type = retType THEN e ELSE GenErrorFrom(e)

(***************************************************************************)
(* Propagating errors: `let weather = expr?;` and the match beside it,     *)
(* each in a function of its own that goes on with RemainingStmts          *)
(* statements and returns Ok(()).  Both are given the same Result.  The    *)
(* match returns Err(err) as it is, so it compiles only where the error    *)
(* type of the Result is the function's error type.                        *)
(***************************************************************************)
RemainingStmts == 2

Sunny72 == [kind |-> "Sunny", detail |-> "72"]
WeatherReports == {Sunny72, [kind |-> "Sunny", detail |-> "80"],
                   [kind |-> "Rainy", detail |-> "55"]}

QmResults == {Ok(w) : w \in WeatherReports} \cup {Err(e) : e \in IoErrors \cup ParseErrors}

\* On error, ? returns from the enclosing function.
ReturnsNever(result) == FALSE
ReturnsOnError(result) == result.tag = "Err"

QmInit ==
  /\ qmRetType \in {"io::Error", "GenError"}
  /\ qmResult \in QmResults
  /\ qmResult.tag = "Err" => HasFrom(qmResult.val.type, qmRetType)
  /\ qmPc = "call"
  /\ qmWeather = Unset
  /\ qmRet = Unset
  /\ qmStmts = 0
  /\ mtPc = IF qmResult.tag = "Err" /\ qmResult.val.type # qmRetType
              THEN "rejected" ELSE "call"
  /\ mtWeather = Unset
  /\ mtRet = Unset
  /\ mtStmts = 0

QuestionMark ==
  /\ qmPc = "call"
  /\ IF ReturnsOnError(qmResult)
       THEN /\ qmRet' = Err(From(qmResult.val, qmRetType))
            /\ qmPc' = "done"
            /\ UNCHANGED qmWeather
       ELSE /\ qmWeather' = qmResult.val
            /\ qmPc' = "rest"
            /\ UNCHANGED qmRet
  /\ UNCHANGED <<qmRetType, qmResult, qmStmts, mtPc, mtWeather, mtRet, mtStmts>>
  /\ UNCHANGED NotQm

QmStatement ==
  /\ qmPc = "rest"
  /\ qmStmts < RemainingStmts
  /\ qmStmts' = qmStmts + 1
  /\ UNCHANGED <<qmRetType, qmResult, qmPc, qmWeather, qmRet,
                 mtPc, mtWeather, mtRet, mtStmts>>
  /\ UNCHANGED NotQm

QmReturnOk ==
  /\ qmPc = "rest"
  /\ qmStmts = RemainingStmts
  /\ qmRet' = Ok(Unit)
  /\ qmPc' = "done"
  /\ UNCHANGED <<qmRetType, qmResult, qmWeather, qmStmts,
                 mtPc, mtWeather, mtRet, mtStmts>>
  /\ UNCHANGED NotQm

Match ==
  /\ mtPc = "call"
  /\ IF qmResult.tag = "Ok"
       THEN /\ mtWeather' = qmResult.val
            /\ mtPc' = "rest"
            /\ UNCHANGED mtRet
       ELSE /\ mtRet' = Err(qmResult.val)
            /\ mtPc' = "done"
            /\ UNCHANGED mtWeather
  /\ UNCHANGED <<qmRetType, qmResult, qmPc, qmWeather, qmRet, qmStmts, mtStmts>>
  /\ UNCHANGED NotQm

MtStatement ==
  /\ mtPc = "rest"
  /\ mtStmts < RemainingStmts
  /\ mtStmts' = mtStmts + 1
  /\ UNCHANGED <<qmRetType, qmResult, qmPc, qmWeather, qmRet, qmStmts,
                 mtPc, mtWeather, mtRet>>
  /\ UNCHANGED NotQm

MtReturnOk ==
  /\ mtPc = "rest"
  /\ mtStmts = RemainingStmts
  /\ mtRet' = Ok(Unit)
  /\ mtPc' = "done"
  /\ UNCHANGED <<qmRetType, qmResult, qmPc, qmWeather, qmRet, qmStmts,
                 mtWeather, mtStmts>>
  /\ UNCHANGED NotQm

QmNext ==
  QuestionMark \/ QmStatement \/ QmReturnOk \/ Match \/ MtStatement \/ MtReturnOk

QmIdle ==
  /\ qmRetType = "idle"
  /\ qmResult = Unset
  /\ qmPc = "idle"
  /\ qmWeather = Unset
  /\ qmRet = Unset
  /\ qmStmts = 0
  /\ mtPc = "idle"
  /\ mtWeather = Unset
  /\ mtRet = Unset
  /\ mtStmts = 0

\* C4 as stated: on an error result the function using ? returns that same
\* error, as the match does.
QuestionMarkReturnsSameError ==
  (qmPc = "done" /\ qmResult.tag = "Err") => qmRet = Err(qmResult.val)

\* C4, amended: on success the function goes on with the unwrapped value; on
\* error it returns at once, running none of its remaining statements, with
\* the error converted to its error type (the same error where the types are
\* equal, a GenError boxing it otherwise); and wherever the match compiles,
\* the two functions end with the same value, the same count of statements
\* run and the same return value.
QuestionMarkPropagates ==
  (qmPc \in {"rest", "done"}) =>
    /\ qmResult.tag = "Ok" =>
         /\ qmWeather = qmResult.val
         /\ qmPc = "done" => (qmRet = Ok(Unit) /\ qmStmts = RemainingStmts)
    /\ qmResult.tag = "Err" =>
         /\ qmPc = "done"
         /\ qmStmts = 0
         /\ qmWeather = Unset
         /\ qmRet = Err(IF qmResult.val.type = qmRetType
                          THEN qmResult.val
                          ELSE [type |-> "GenError", msg |-> qmResult.val.msg,
                                boxed |-> <<qmResult.val>>])
    /\ (qmPc = "done" /\ mtPc = "done") =>
         (qmRet = mtRet /\ qmWeather = mtWeather /\ qmStmts = mtStmts)

QuestionMarkPropagatesWitness ==
  /\ qmPc = "done"
  /\ qmResult.tag = "Err"
  /\ qmRetType = "GenError"
  /\ qmRet.val.boxed = <<qmResult.val>>

(***************************************************************************)
(* result.unwrap_or(fallback) and result.unwrap_or_else(fallback_fn), as   *)
(* used on get_weather: unwrap_or(THE_USUAL) and                           *)
(* unwrap_or_else(|_err| vague_prediction(hometown)).                      *)
(***************************************************************************)
THE_USUAL == Sunny72
Locations == {"hometown", "los_angeles", "portland", "san_diego"}
vague_prediction(location) == [kind |-> "vague_prediction", detail |-> location]

UwResults == {Ok(w) : w \in WeatherReports} \cup {Err(e) : e \in IoErrors}

\* The fallback_fn is called only if we have an error result.
CallsFallbackAlways(result) == TRUE
CallsFallbackFn(result) == result.tag = "Err"

UwInit ==
  /\ uwMethod \in {"unwrap_or", "unwrap_or_else"}
  /\ uwResult \in UwResults
  /\ uwHometown \in Locations
  /\ uwPc = "call"
  /\ uwReport = Unset
  /\ uwFnCalls = 0

UnwrapOr ==
  /\ uwPc = "call"
  /\ uwMethod = "unwrap_or"
  /\ uwReport' = IF uwResult.tag = "Ok" THEN uwResult.val ELSE THE_USUAL
  /\ uwPc' = "display"
  /\ UNCHANGED <<uwMethod, uwResult, uwHometown, uwFnCalls>>
  /\ UNCHANGED NotUw

UnwrapOrElse ==
  /\ uwPc = "call"
  /\ uwMethod = "unwrap_or_else"
  /\ IF CallsFallbackFn(uwResult)
       THEN uwPc' = "fallback_fn" /\ UNCHANGED uwReport
       ELSE uwPc' = "display" /\ uwReport' = uwResult.val
  /\ UNCHANGED <<uwMethod, uwResult, uwHometown, uwFnCalls>>
  /\ UNCHANGED NotUw

FallbackFn ==
  /\ uwPc = "fallback_fn"
  /\ uwFnCalls' = uwFnCalls + 1
  /\ uwReport' = vague_prediction(uwHometown)
  /\ uwPc' = "display"
  /\ UNCHANGED <<uwMethod, uwResult, uwHometown>>
  /\ UNCHANGED NotUw

DisplayWeather ==
  /\ uwPc = "display"
  /\ uwPc' = "done"
  /\ UNCHANGED <<uwMethod, uwResult, uwHometown, uwReport, uwFnCalls>>
  /\ UNCHANGED NotUw

UwNext == UnwrapOr \/ UnwrapOrElse \/ FallbackFn \/ DisplayWeather

UwIdle ==
  /\ uwMethod = "idle"
  /\ uwResult = Unset
  /\ uwHometown = "idle"
  /\ uwPc = "idle"
  /\ uwReport = Unset
  /\ uwFnCalls = 0

\* C5: unwrap_or and unwrap_or_else give the success value of a success
\* result and the fallback otherwise, discarding the error; fallback_fn is
\* called only for an error result, never for a success result.
UnwrapOrGivesValueOrFallback ==
  /\ uwFnCalls > 0 => (uwResult.tag = "Err" /\ uwMethod = "unwrap_or_else")
  /\ (uwPc \in {"display", "done"}) =>
       /\ uwResult.tag = "Ok" => (uwReport = uwResult.val /\ uwFnCalls = 0)
       /\ (uwResult.tag = "Err" /\ uwMethod = "unwrap_or") =>
            uwReport = [kind |-> "Sunny", detail |-> "72"]
       /\ (uwResult.tag = "Err" /\ uwMethod = "unwrap_or_else") =>
            /\ uwReport = [kind |-> "vague_prediction", detail |-> uwHometown]
            /\ uwFnCalls = 1

UnwrapOrGivesValueOrFallbackWitness ==
  /\ uwPc = "done"
  /\ uwMethod = "unwrap_or_else"
  /\ uwResult.tag = "Err"
  /\ uwFnCalls = 1
  /\ uwReport # Unset

(***************************************************************************)
(* move_all(src, dst).  The environment fixes in advance whether the       *)
(* directory opens and, for each entry in listing order, whether reading   *)
(* it fails, renaming it fails, or both succeed.  Entry i is named i.      *)
(* fs::rename moves the file exactly when it returns Ok.                   *)
(***************************************************************************)
MaxEntries == 3

EntryOutcomes == {"ok", "read_err", "rename_err"}
Dirs == UNION {[1..n -> EntryOutcomes] : n \in 0..MaxEntries}

ReadDir(open) == IF open THEN Ok(Unit) ELSE Err(IoError("cannot open directory"))
EntryResult(outcome) ==
  IF outcome = "read_err" THEN Err(IoError("cannot read entry")) ELSE Ok(Unit)
FsRename(outcome) ==
  IF outcome = "rename_err" THEN Err(IoError("cannot rename")) ELSE Ok(Unit)

MvInit ==
  /\ mvOpen \in BOOLEAN
  /\ mvDir \in Dirs
  /\ mvPc = "read_dir"
  /\ mvPos = 0
  /\ mvSrc = 1..Len(mvDir)
  /\ mvDst = {}
  /\ mvRet = Unset

\* src.read_dir()?
MoveAllReadDir ==
  /\ mvPc = "read_dir"
  /\ LET r == ReadDir(mvOpen) IN
       IF ReturnsOnError(r)
         THEN mvRet' = Err(From(r.val, "io::Error")) /\ mvPc' = "done"
         ELSE mvPc' = "for" /\ UNCHANGED mvRet
  /\ UNCHANGED <<mvOpen, mvDir, mvPos, mvSrc, mvDst>>
  /\ UNCHANGED NotMv

\* for entry_result in ... { let entry = entry_result?;
MoveAllNextEntry ==
  /\ mvPc = "for"
  /\ mvPos < Len(mvDir)
  /\ mvPos' = mvPos + 1
  /\ LET r == EntryResult(mvDir[mvPos + 1]) IN
       IF ReturnsOnError(r)
         THEN mvRet' = Err(From(r.val, "io::Error")) /\ mvPc' = "done"
         ELSE mvPc' = "rename" /\ UNCHANGED mvRet
  /\ UNCHANGED <<mvOpen, mvDir, mvSrc, mvDst>>
  /\ UNCHANGED NotMv

\* The rename with its result dropped instead of propagated.
MoveAllRenameIgnoringErrors ==
  /\ mvPc = "rename"
  /\ LET r == FsRename(mvDir[mvPos]) IN
       IF r.tag = "Ok"
         THEN mvSrc' = mvSrc \ {mvPos} /\ mvDst' = mvDst \cup {mvPos}
         ELSE UNCHANGED <<mvSrc, mvDst>>
  /\ mvPc' = "for"
  /\ UNCHANGED <<mvOpen, mvDir, mvPos, mvRet>>
  /\ UNCHANGED NotMv

\* fs::rename(entry.path(), dst.join(entry.file_name()))?;
MoveAllRename ==
  /\ mvPc = "rename"
  /\ LET r == FsRename(mvDir[mvPos]) IN
       /\ IF r.tag = "Ok"
            THEN mvSrc' = mvSrc \ {mvPos} /\ mvDst' = mvDst \cup {mvPos}
            ELSE UNCHANGED <<mvSrc, mvDst>>
       /\ IF ReturnsOnError(r)
            THEN mvRet' = Err(From(r.val, "io::Error")) /\ mvPc' = "done"
            ELSE mvPc' = "for" /\ UNCHANGED mvRet
  /\ UNCHANGED <<mvOpen, mvDir, mvPos>>
  /\ UNCHANGED NotMv

\* Ok(()) // phew!
MoveAllReturnOk ==
  /\ mvPc = "for"
  /\ mvPos = Len(mvDir)
  /\ mvRet' = Ok(Unit)
  /\ mvPc' = "done"
  /\ UNCHANGED <<mvOpen, mvDir, mvPos, mvSrc, mvDst>>
  /\ UNCHANGED NotMv

MvNext == MoveAllReadDir \/ MoveAllNextEntry \/ MoveAllRename \/ MoveAllReturnOk

MvIdle ==
  /\ mvOpen = FALSE
  /\ mvDir = <<>>
  /\ mvPc = "idle"
  /\ mvPos = 0
  /\ mvSrc = {}
  /\ mvDst = {}
  /\ mvRet = Unset

\* The first entry whose read or rename fails; 0 when there is none.
FirstFailingEntry(dir) ==
  IF \A i \in 1..Len(dir) : dir[i] = "ok"
    THEN 0
    ELSE CHOOSE i \in 1..Len(dir) :
           dir[i] # "ok" /\ \A j \in 1..(i - 1) : dir[j] = "ok"

\* C8: move_all returns Ok(()) only if opening the directory, reading every
\* entry and renaming every entry all succeeded; when it returns an error
\* the entries renamed into dst are exactly those before the first failing
\* step: none is rolled back, and no entry after the failing step is read
\* or renamed.
MoveAllStopsAtFirstFailure ==
  LET f == FirstFailingEntry(mvDir) IN
    mvPc = "done" =>
      /\ mvRet.tag = "Ok" <=> (mvOpen /\ f = 0)
      /\ mvRet.tag = "Ok" => (mvDst = 1..Len(mvDir) /\ mvSrc = {})
      /\ (mvRet.tag = "Err" /\ ~mvOpen) =>
           (mvPos = 0 /\ mvDst = {} /\ mvSrc = 1..Len(mvDir))
      /\ (mvRet.tag = "Err" /\ mvOpen) =>
           (mvPos = f /\ mvDst = 1..(f - 1) /\ mvSrc = f..Len(mvDir))

MoveAllStopsAtFirstFailureWitness ==
  /\ mvPc = "done"
  /\ mvRet.tag = "Err"
  /\ mvDst # {}
  /\ mvPos < Len(mvDir)
  /\ mvDir[mvPos] = "rename_err"

(***************************************************************************)
(* str::parse for integers.  A string is a sequence of characters.  The    *)
(* parsed number is kept as a sign and a magnitude in decimal digits       *)
(* without leading zeros, so that the range check is made on numbers of    *)
(* any size: the magnitude is compared with the target type's limit.       *)
(***************************************************************************)
DigitChars == <<"0", "1", "2", "3", "4", "5", "6", "7", "8", "9">>
IsDigit(c) == \E i \in 1..Len(DigitChars) : DigitChars[i] = c
DigitValue(c) == (CHOOSE i \in 1..Len(DigitChars) : DigitChars[i] = c) - 1

RECURSIVE StripZeros(_)
StripZeros(ds) ==
  IF ds # <<>> /\ Head(ds) = "0" THEN StripZeros(Tail(ds)) ELSE ds

\* a > b, for magnitudes without leading zeros
MagGreater(a, b) ==
  \/ Len(a) > Len(b)
  \/ /\ Len(a) = Len(b)
     /\ \E i \in 1..Len(a) :
          /\ DigitValue(a[i]) > DigitValue(b[i])
          /\ \A j \in 1..(i - 1) : a[j] = b[j]

Number(neg, mag) == [neg |-> neg /\ mag # <<>>, mag |-> mag]

\* u64::MAX = 18446744073709551615, i64::MAX = 9223372036854775807,
\* -i64::MIN = 9223372036854775808
U64Max == <<"1","8","4","4","6","7","4","4","0","7","3","7","0","9","5","5","1","6","1","5">>
I64Max == <<"9","2","2","3","3","7","2","0","3","6","8","5","4","7","7","5","8","0","7">>
I64MinMag == <<"9","2","2","3","3","7","2","0","3","6","8","5","4","7","7","5","8","0","8">>

EmptyError == ParseIntError("cannot parse integer from empty string")
InvalidDigit == ParseIntError("invalid digit found in string")
PosOverflow == ParseIntError("number too large to fit in target type")
NegOverflow == ParseIntError("number too small to fit in target type")

\* The digits after an optional sign, for a type that is signed or not.
ParseInt(s, signed, maxMag, minMag) ==
  IF s = <<>> THEN Err(EmptyError)
  ELSE
    LET neg == signed /\ Head(s) = "-"
        body == IF Head(s) = "+" \/ neg THEN Tail(s) ELSE s
        mag == StripZeros(body)
    IN IF body = <<>> \/ \E i \in 1..Len(body) : ~IsDigit(body[i])
         THEN Err(InvalidDigit)
       ELSE IF ~neg /\ MagGreater(mag, maxMag) THEN Err(PosOverflow)
       ELSE IF neg /\ MagGreater(mag, minMag) THEN Err(NegOverflow)
       ELSE Ok(Number(neg, mag))

ParseI64(s) == ParseInt(s, TRUE, I64Max, I64MinMag)
ParseU64(s) == ParseInt(s, FALSE, U64Max, <<>>)

(***************************************************************************)
(* read_numbers(file), with the return type GenResult<Vec<i64>>.  The file *)
(* is the sequence of results file.lines() yields: Ok(line) or an          *)
(* io::Error.                                                              *)
(***************************************************************************)
MaxLines == 3

LineTexts == {<<"4", "2">>, <<"-", "7">>, <<"+", "0", "0", "7">>, <<>>,
              <<"4", "x">>, <<" ", "1">>, I64Max, I64MinMag, <<"-">> \o I64MinMag}
LineResults == {Ok(t) : t \in LineTexts} \cup {Err(IoError("read failed"))}
Files == UNION {[1..n -> LineResults] : n \in 0..MaxLines}

\* numbers.push(n) on a Vec
PushFront(numbers, n) == <<n>> \o numbers
Push(numbers, n) == Append(numbers, n)

RnInit ==
  /\ rnFile \in Files
  /\ rnPc = "for"
  /\ rnPos = 0
  /\ rnLine = <<>>
  /\ rnNumbers = <<>>
  /\ rnRet = Unset

\* for line_result in file.lines() { let line = line_result?;
ReadNumbersNextLine ==
  /\ rnPc = "for"
  /\ rnPos < Len(rnFile)
  /\ rnPos' = rnPos + 1
  /\ LET line_result == rnFile[rnPos + 1] IN
       IF ReturnsOnError(line_result)
         THEN /\ rnRet' = Err(From(line_result.val, "GenError"))
              /\ rnPc' = "done"
              /\ UNCHANGED rnLine
         ELSE /\ rnLine' = line_result.val
              /\ rnPc' = "parse"
              /\ UNCHANGED rnRet
  /\ UNCHANGED <<rnFile, rnNumbers>>
  /\ UNCHANGED NotRn

\* numbers.push(line.parse()?);
ReadNumbersParsePush ==
  /\ rnPc = "parse"
  /\ LET r == ParseI64(rnLine) IN
       IF ReturnsOnError(r)
         THEN /\ rnRet' = Err(From(r.val, "GenError"))
              /\ rnPc' = "done"
              /\ UNCHANGED rnNumbers
         ELSE /\ rnNumbers' = Push(rnNumbers, r.val)
              /\ rnPc' = "for"
              /\ UNCHANGED rnRet
  /\ UNCHANGED <<rnFile, rnPos, rnLine>>
  /\ UNCHANGED NotRn

\* Ok(numbers)
ReadNumbersReturnOk ==
  /\ rnPc = "for"
  /\ rnPos = Len(rnFile)
  /\ rnRet' = Ok(rnNumbers)
  /\ rnPc' = "done"
  /\ UNCHANGED <<rnFile, rnPos, rnLine, rnNumbers>>
  /\ UNCHANGED NotRn

RnNext == ReadNumbersNextLine \/ ReadNumbersParsePush \/ ReadNumbersReturnOk

RnIdle ==
  /\ rnFile = <<>>
  /\ rnPc = "idle"
  /\ rnPos = 0
  /\ rnLine = <<>>
  /\ rnNumbers = <<>>
  /\ rnRet = Unset

\* What goes wrong with line i of the file, if anything: the io::Error of
\* reading it, or the error of parsing it.
LineFailure(file, i) ==
  IF file[i].tag = "Err" THEN Some(file[i].val)
  ELSE IF ParseI64(file[i].val).tag = "Err" THEN Some(ParseI64(file[i].val).val)
  ELSE None

FailingLines(file) == {i \in 1..Len(file) : LineFailure(file, i) # None}
FirstOf(S) == CHOOSE i \in S : \A j \in S : i <= j

\* C6: read_numbers returns Ok with the parsed integers of all lines in file
\* order iff every line is read and parsed; otherwise it returns the first
\* failure met (an I/O error or a parse error) as one GenError, reads no
\* line after it and returns none of the numbers collected.
ReadNumbersAllOrFirstError ==
  LET bad == FailingLines(rnFile) IN
    rnPc = "done" =>
      /\ rnRet.tag = "Ok" <=> bad = {}
      /\ rnRet.tag = "Ok" =>
           /\ rnPos = Len(rnFile)
           /\ rnRet.val = [i \in 1..Len(rnFile) |-> ParseI64(rnFile[i].val).val]
      /\ rnRet.tag = "Err" =>
           /\ rnPos = FirstOf(bad)
           /\ rnRet.val.type = "GenError"
           /\ rnRet.val.boxed = LineFailure(rnFile, FirstOf(bad))

ReadNumbersAllOrFirstErrorWitness ==
  /\ rnPc = "done"
  /\ rnRet.tag = "Err"
  /\ rnRet.val.boxed[1].type = "ParseIntError"
  /\ rnNumbers # <<>>
  /\ rnPos < Len(rnFile)

(***************************************************************************)
(* The compile retry loop, in a function returning GenResult<()>.          *)
(* compile_project() and insert_semicolon_in_source_code() belong to the   *)
(* environment: each call may give any of its results.  rlLog holds the    *)
(* last LogWindow calls made, oldest first.                                *)
(***************************************************************************)
LogWindow == 3

SourceFiles == {"main.rs", "lib.rs"}
SourceLines == {10, 20, 30}

MissingSemicolonError(f, l) ==
  [type |-> "MissingSemicolonError", msg |-> "missing semicolon", boxed |-> None,
   file |-> f, line |-> l]
OtherCompileErrors == {[type |-> "TypeError", msg |-> "mismatched types", boxed |-> None],
                       IoError("timed out")}

CompileResults ==
  {Ok(Unit)}
    \cup {Err(GenErrorFrom(MissingSemicolonError(f, l))) : f \in SourceFiles, l \in SourceLines}
    \cup {Err(GenErrorFrom(e)) : e \in OtherCompileErrors}
InsertResults == {Ok(Unit), Err(IoError("cannot write source file"))}

\* error.downcast_ref::<ErrorType>()
downcast_ref(err, ErrorType) ==
  IF err.boxed # None /\ err.boxed[1].type = ErrorType THEN err.boxed ELSE None

Logged(log, call) ==
  LET all == Append(log, call) IN
    IF Len(all) > LogWindow THEN Tail(all) ELSE all

CompileCall(r) == [op |-> "compile_project", file |-> "", line |-> 0, result |-> r]
InsertCall(f, l, r) ==
  [op |-> "insert_semicolon_in_source_code", file |-> f, line |-> l, result |-> r]

RlInit ==
  /\ rlPc = "loop"
  /\ rlCompile = Unset
  /\ rlLog = <<>>
  /\ rlRet = Unset

\* loop { match compile_project() {
CompileProject ==
  /\ rlPc = "loop"
  /\ \E r \in CompileResults :
       /\ rlCompile' = r
       /\ rlLog' = Logged(rlLog, CompileCall(r))
  /\ rlPc' = "match"
  /\ UNCHANGED rlRet
  /\ UNCHANGED NotRl

\* Ok(()) => return Ok(()),
MatchOk ==
  /\ rlPc = "match"
  /\ rlCompile.tag = "Ok"
  /\ rlRet' = Ok(Unit)
  /\ rlPc' = "done"
  /\ UNCHANGED <<rlCompile, rlLog>>
  /\ UNCHANGED NotRl

\* Err(err) => { if let Some(mse) = err.downcast_ref::<MissingSemicolonError>() {
MatchErrMissingSemicolon ==
  /\ rlPc = "match"
  /\ rlCompile.tag = "Err"
  /\ downcast_ref(rlCompile.val, "MissingSemicolonError") # None
  /\ rlPc' = "insert"
  /\ UNCHANGED <<rlCompile, rlLog, rlRet>>
  /\ UNCHANGED NotRl

\* The arm for the other errors going round the loop again.
MatchErrOtherRetries ==
  /\ rlPc = "match"
  /\ rlCompile.tag = "Err"
  /\ downcast_ref(rlCompile.val, "MissingSemicolonError") = None
  /\ rlPc' = "loop"
  /\ UNCHANGED <<rlCompile, rlLog, rlRet>>
  /\ UNCHANGED NotRl

\* return Err(err);
MatchErrOther ==
  /\ rlPc = "match"
  /\ rlCompile.tag = "Err"
  /\ downcast_ref(rlCompile.val, "MissingSemicolonError") = None
  /\ rlRet' = Err(rlCompile.val)
  /\ rlPc' = "done"
  /\ UNCHANGED <<rlCompile, rlLog>>
  /\ UNCHANGED NotRl

\* The insertion with its result dropped: the loop retries whatever it was.
InsertSemicolonIgnoringErrors ==
  /\ rlPc = "insert"
  /\ LET mse == downcast_ref(rlCompile.val, "MissingSemicolonError")[1] IN
       \E r \in InsertResults :
         rlLog' = Logged(rlLog, InsertCall(mse.file, mse.line, r))
  /\ rlPc' = "loop"
  /\ UNCHANGED <<rlCompile, rlRet>>
  /\ UNCHANGED NotRl

\* insert_semicolon_in_source_code(mse.file(), mse.line())?; continue;
InsertSemicolon ==
  /\ rlPc = "insert"
  /\ LET mse == downcast_ref(rlCompile.val, "MissingSemicolonError")[1] IN
       \E r \in InsertResults :
         /\ rlLog' = Logged(rlLog, InsertCall(mse.file, mse.line, r))
         /\ IF ReturnsOnError(r)
              THEN rlRet' = Err(From(r.val, "GenError")) /\ rlPc' = "done"
              ELSE rlPc' = "loop" /\ UNCHANGED rlRet
  /\ UNCHANGED rlCompile
  /\ UNCHANGED NotRl

RlNext ==
  CompileProject \/ MatchOk \/ MatchErrMissingSemicolon \/ MatchErrOther
    \/ InsertSemicolon

RlIdle ==
  /\ rlPc = "idle"
  /\ rlCompile = Unset
  /\ rlLog = <<>>
  /\ rlRet = Unset

IsCompile(call) == call.op = "compile_project"
IsInsert(call) == call.op = "insert_semicolon_in_source_code"
IsMissingSemicolon(result) ==
  /\ result.tag = "Err"
  /\ result.val.boxed # <<>>
  /\ result.val.boxed[1].type = "MissingSemicolonError"

\* C7: the loop returns Ok(()) only right after compile_project() returned
\* Ok; an error of compile_project() that is no MissingSemicolonError is
\* returned unchanged with no further attempt; every attempt after the first
\* comes right after a successful insertion made for the
\* MissingSemicolonError of the attempt before; a failed insertion is
\* returned as the loop's error.
RetryLoopHandlesOnlyMissingSemicolon ==
  LET n == Len(rlLog) IN
    /\ (rlPc = "done" /\ rlRet.tag = "Ok") =>
         (IsCompile(rlLog[n]) /\ rlLog[n].result.tag = "Ok")
    /\ (rlPc = "done" /\ rlRet.tag = "Err") =>
         \/ /\ IsCompile(rlLog[n])
            /\ rlLog[n].result.tag = "Err"
            /\ ~IsMissingSemicolon(rlLog[n].result)
            /\ rlRet = rlLog[n].result
         \/ /\ IsInsert(rlLog[n])
            /\ rlLog[n].result.tag = "Err"
            /\ rlRet.val.boxed = <<rlLog[n].result.val>>
    /\ \A i \in 2..n :
         /\ IsCompile(rlLog[i]) =>
              (IsInsert(rlLog[i - 1]) /\ rlLog[i - 1].result.tag = "Ok")
         /\ IsInsert(rlLog[i]) =>
              /\ IsCompile(rlLog[i - 1])
              /\ IsMissingSemicolon(rlLog[i - 1].result)
              /\ rlLog[i].file = rlLog[i - 1].result.val.boxed[1].file
              /\ rlLog[i].line = rlLog[i - 1].result.val.boxed[1].line
    /\ (n >= 1 /\ IsInsert(rlLog[n]) /\ rlLog[n].result.tag = "Err") =>
         (rlPc = "done" /\ rlRet.tag = "Err")
    /\ (rlPc = "match" /\ n >= 1) => IsCompile(rlLog[n])

RetryLoopHandlesOnlyMissingSemicolonWitness ==
  /\ rlPc = "match"
  /\ Len(rlLog) = 3
  /\ IsCompile(rlLog[1])
  /\ IsInsert(rlLog[2])
  /\ IsCompile(rlLog[3])

\* C9 as stated: the loop eventually returns.
RetryLoopEventuallyReturns == <>(rlPc = "done")

\* C9, amended: the loop returns after an attempt whose result is Ok or an
\* error that is no MissingSemicolonError (and, by C7, after a failed
\* insertion); while every attempt gives a MissingSemicolonError and every
\* insertion succeeds it goes on retrying.
RetryLoopReturnsOnceNothingToFix ==
  (rlPc = "match" /\ ~IsMissingSemicolon(rlCompile)) ~> (rlPc = "done")

RetryLoopReturnsOnceNothingToFixWitness ==
  /\ rlPc = "done"
  /\ Len(rlLog) = 3
  /\ IsCompile(rlLog[3])
  /\ IsInsert(rlLog[2])
  /\ rlRet.tag = "Err"

(***************************************************************************)
(* digits.parse::<u64>().unwrap(), where digits is a string found to       *)
(* consist of decimal digits only.                                         *)
(***************************************************************************)
MaxDigits == 3

SomeDigits == {"0", "1", "8", "9"}
LongDigitStrings ==
  {U64Max,
   [i \in 1..Len(U64Max) |-> IF i = Len(U64Max) THEN "6" ELSE U64Max[i]],
   <<"0", "0">> \o U64Max,
   [i \in 1..32 |-> "9"]}
DigitStrings ==
  UNION {[1..n -> SomeDigits] : n \in 1..MaxDigits} \cup LongDigitStrings

PdInit ==
  /\ pdDigits \in DigitStrings
  /\ pdPc = "parse"
  /\ pdNum = Unset

\* let num = digits.parse::<u64>().unwrap();   the success value
ParseUnwrap ==
  /\ pdPc = "parse"
  /\ ParseU64(pdDigits).tag = "Ok"
  /\ pdNum' = ParseU64(pdDigits).val
  /\ pdPc' = "done"
  /\ UNCHANGED pdDigits
  /\ UNCHANGED NotPd

\* unwrap() on an error result panics
ParseUnwrapPanics ==
  /\ pdPc = "parse"
  /\ ParseU64(pdDigits).tag = "Err"
  /\ pdPc' = "panicked"
  /\ UNCHANGED <<pdDigits, pdNum>>
  /\ UNCHANGED NotPd

PdNext == ParseUnwrap \/ ParseUnwrapPanics

PdIdle ==
  /\ pdDigits = <<>>
  /\ pdPc = "idle"
  /\ pdNum = Unset

\* C10: for a string made of decimal digits only,
\* digits.parse::<u64>().unwrap() gives the number and never panics.
ParseUnwrapNeverPanics ==
  (pdPc # "idle" /\ \A i \in 1..Len(pdDigits) : IsDigit(pdDigits[i])) =>
    pdPc # "panicked"

(***************************************************************************)
(* The specifications, one for each fragment.                              *)
(***************************************************************************)
PrintErrorInit == PeInit /\ QmIdle /\ UwIdle /\ MvIdle /\ RnIdle /\ RlIdle /\ PdIdle
PropagateInit == PeIdle /\ QmInit /\ UwIdle /\ MvIdle /\ RnIdle /\ RlIdle /\ PdIdle
UnwrapOrInit == PeIdle /\ QmIdle /\ UwInit /\ MvIdle /\ RnIdle /\ RlIdle /\ PdIdle
MoveAllInit == PeIdle /\ QmIdle /\ UwIdle /\ MvInit /\ RnIdle /\ RlIdle /\ PdIdle
ReadNumbersInit == PeIdle /\ QmIdle /\ UwIdle /\ MvIdle /\ RnInit /\ RlIdle /\ PdIdle
RetryLoopInit == PeIdle /\ QmIdle /\ UwIdle /\ MvIdle /\ RnIdle /\ RlInit /\ PdIdle
ParseInit == PeIdle /\ QmIdle /\ UwIdle /\ MvIdle /\ RnIdle /\ RlIdle /\ PdInit

PrintErrorSpec == PrintErrorInit /\ [][PeNext]_vars
\* print_error runs on: a step that can be taken is taken.
PrintErrorFairSpec == PrintErrorInit /\ [][PeNext]_vars /\ WF_vars(PeNext)
PropagateSpec == PropagateInit /\ [][QmNext]_vars
UnwrapOrSpec == UnwrapOrInit /\ [][UwNext]_vars
MoveAllSpec == MoveAllInit /\ [][MvNext]_vars
ReadNumbersSpec == ReadNumbersInit /\ [][RnNext]_vars
RetryLoopSpec == RetryLoopInit /\ [][RlNext]_vars
\* The loop runs on, and the calls it makes return; what they return is not
\* constrained.
RetryLoopFairSpec == RetryLoopInit /\ [][RlNext]_vars /\ WF_vars(RlNext)
ParseSpec == ParseInit /\ [][PdNext]_vars

Init ==
  \/ PrintErrorInit
  \/ PropagateInit
  \/ UnwrapOrInit
  \/ MoveAllInit
  \/ ReadNumbersInit
  \/ RetryLoopInit
  \/ ParseInit

Next == PeNext \/ QmNext \/ UwNext \/ MvNext \/ RnNext \/ RlNext \/ PdNext

Spec == Init /\ [][Next]_vars
====
